---- MODULE Spec2Model ----
(***************************************************************************)
(* Overlay positioning and open/close control of the ContextualMenu and   *)
(* Tooltip components (src/src/components/ContextualMenu/ContextualMenu.tsx*)
(* holds both components).                                                 *)
(*                                                                         *)
(* The specifications of the module:                                       *)
(*   SpecResolver    - adjustForWindow applied to every position/fitment   *)
(*   SpecGeometry    - getPositionStyle applied to bounded rectangles      *)
(*   SpecMenu        - the ContextualMenu open/close controller            *)
(*   SpecTooltip     - the Tooltip open-delay timer and dismiss handling   *)
(*   FairSpecTooltip - SpecTooltip with every pending timer firing         *)
(*   SpecTooltipPosition - the Tooltip's overlay placement, every prop     *)
(*   SpecTooltipStyle - the Tooltip's overlay style, hover timers and a    *)
(*                      message prop that comes and goes                   *)
(* Each leaves the variables of the other parts at fixed values.           *)
(***************************************************************************)
EXTENDS Integers, Sequences, FiniteSets, TLC

VARIABLES
    \* ---- adjustForWindow harness
    rPosition,      \* the requested position handed to adjustForWindow
    rFits,          \* the WindowFitment handed to adjustForWindow
    rResult,        \* the value last returned
    rPrevious,      \* the value returned by the run before the last one
    rRuns,          \* how many times adjustForWindow has run (0..2)
    \* ---- getPositionStyle harness
    gPos,           \* the position handed to getPositionStyle
    gNode,          \* the anchor's bounding rectangle, or NULL for no anchor
    gStyle,         \* the PositionStyle held (useState initial value, then the result)
    \* ---- ContextualMenu
    closeOnEsc,          \* prop
    closeOnOutsideClick, \* prop
    positionNode,        \* prop: the node to position against, or NoNode
    hasToggle,           \* hasToggleIcon || toggleLabel: the toggle button is rendered
    visible,             \* prop, changed by the parent
    previousVisible,     \* usePrevious(visible): <<v>> once a render committed v
    menuIsOpen,          \* usePortal's isOpen
    positionCoords,      \* the rectangle last measured by updatePositionCoords
    toggleCalls,         \* the arguments onToggleMenu has been called with, in order
    anchorRect,          \* the positioning node's current bounding rectangle
    anchorHidden,        \* the positioning node's offsetParent is null
    \* ---- Tooltip
    tipIsOpen,      \* usePortal's isOpen
    timer,          \* the timer state: the handle last stored by setTimer, 0 for null
    timers,         \* the host's timers: handle -> "unused", "pending", "fired", "cleared"
    staleTimers,    \* history: the handles scheduled before the last dismiss
    openedBy,       \* history: the timer whose callback made the tooltip Open, else 0
    hoverActive,    \* history: a mouse-over happened and no dismiss trigger since
    opens,          \* history: Closed-to-Open transitions since the last dismiss trigger
    mounted,        \* the Tooltip component is mounted
    followMouse,    \* prop
    autoAdjust,     \* prop
    tipPosition,    \* prop: position, the requested position
    adjustedPosition, \* the adjustedPosition state
    positionStyle,  \* the positionStyle state, the style the overlay renders with
    wrapperRect,    \* wrapperRef.current's current bounding rectangle; NULL while
                    \* no anchor is mounted (the message prop is empty)
    windowFits,     \* the WindowFitment a measurement taken now returns
    pointer,        \* history: <<pageX, pageY>> of the last pointer-move event
    \* ---- window
    scrollX,        \* window.scrollX
    scrollY,        \* window.scrollY
    \* ---- the event the component handled last (all specifications)
    lastEvent

resolverVars == <<rPosition, rFits, rResult, rPrevious, rRuns>>
geometryVars == <<gPos, gNode, gStyle>>
windowVars == <<scrollX, scrollY>>
tipProps == <<followMouse, autoAdjust, tipPosition>>
tooltipVars == <<tipIsOpen, timer, timers, staleTimers, openedBy, hoverActive, opens,
                 mounted, tipProps, adjustedPosition, positionStyle, wrapperRect,
                 windowFits, pointer>>
menuProps == <<closeOnEsc, closeOnOutsideClick, positionNode, hasToggle>>
menuVars == <<menuProps, visible, previousVisible, menuIsOpen, positionCoords,
              toggleCalls, anchorRect, anchorHidden>>

\* JavaScript null where an object (a node, a rectangle, a style) is expected
NULL == [isNull |-> TRUE]

-----------------------------------------------------------------------------
(* Strings are sequences of one-character strings, so that endsWith,       *)
(* startsWith and replace act on the text as String.prototype does.        *)

btmCenter == <<"b","t","m","-","c","e","n","t","e","r">>
btmLeft   == <<"b","t","m","-","l","e","f","t">>
btmRight  == <<"b","t","m","-","r","i","g","h","t">>
left      == <<"l","e","f","t">>
right     == <<"r","i","g","h","t">>
topCenter == <<"t","o","p","-","c","e","n","t","e","r">>
topLeft   == <<"t","o","p","-","l","e","f","t">>
topRight  == <<"t","o","p","-","r","i","g","h","t">>

\* export const position = {...}: the enumerated positions
position ==
    {btmCenter, btmLeft, btmRight, left, right, topCenter, topLeft, topRight}

startsWith(s, p) ==
    /\ Len(s) >= Len(p)
    /\ SubSeq(s, 1, Len(p)) = p

endsWith(s, p) ==
    /\ Len(s) >= Len(p)
    /\ SubSeq(s, Len(s) - Len(p) + 1, Len(s)) = p

\* index of the first occurrence of p in s, 0 when there is none
indexOf(s, p) ==
    LET hits == {i \in 1..(Len(s) - Len(p) + 1) : SubSeq(s, i, i + Len(p) - 1) = p}
    IN  IF hits = {} THEN 0 ELSE CHOOSE i \in hits : \A j \in hits : i <= j

\* String.prototype.replace with a string pattern: the first occurrence only
replace(s, p, r) ==
    LET i == indexOf(s, p)
    IN  IF i = 0 THEN s
        ELSE SubSeq(s, 1, i - 1) \o r \o SubSeq(s, i + Len(p), Len(s))

\* the flags of a WindowFitment that adjustForWindow reads
WindowFitment ==
    [fromLeft   : [fitsLeft : BOOLEAN, fitsRight : BOOLEAN],
     fromRight  : [fitsLeft : BOOLEAN, fitsRight : BOOLEAN],
     fromTop    : [fitsAbove : BOOLEAN],
     fromBottom : [fitsBelow : BOOLEAN],
     fromCenter : [fitsCentered : [fitsLeft : BOOLEAN, fitsRight : BOOLEAN]]]

center == <<"c","e","n","t","e","r">>
top == <<"t","o","p">>
btm == <<"b","t","m">>
dash == <<"-">>

sideToCornerSameSide(pos, fitsWindow) ==
    LET p1 == IF ~fitsWindow.fromLeft.fitsLeft /\ pos = left
              THEN topLeft ELSE pos
    IN  IF ~fitsWindow.fromRight.fitsRight /\ p1 = right
        THEN topRight ELSE p1

\* lines 475-480: plain "left"/"right" that does not fit moves to the
\* opposite upper corner
sideToCorner(pos, fitsWindow) ==
    LET p1 == IF ~fitsWindow.fromLeft.fitsLeft /\ pos = left
              THEN topRight ELSE pos
    IN  IF ~fitsWindow.fromRight.fitsRight /\ p1 = right
        THEN topLeft ELSE p1

flipHorizontalDropsNegation(pos, fitsWindow) ==
    LET p1 == IF fitsWindow.fromRight.fitsLeft /\ endsWith(pos, dash \o right)
              THEN replace(pos, right, left) ELSE pos
    IN  IF ~fitsWindow.fromLeft.fitsRight /\ endsWith(p1, dash \o left)
        THEN replace(p1, left, right) ELSE p1

\* lines 481-486: "-right" flips to "-left" and then "-left" to "-right"
flipHorizontal(pos, fitsWindow) ==
    LET p1 == IF ~fitsWindow.fromRight.fitsLeft /\ endsWith(pos, dash \o right)
              THEN replace(pos, right, left) ELSE pos
    IN  IF ~fitsWindow.fromLeft.fitsRight /\ endsWith(p1, dash \o left)
        THEN replace(p1, left, right) ELSE p1

flipVerticalWritesBottom(pos, fitsWindow) ==
    LET p1 == IF ~fitsWindow.fromTop.fitsAbove /\ startsWith(pos, top)
              THEN replace(pos, top, <<"b","o","t","t","o","m">>) ELSE pos
    IN  IF ~fitsWindow.fromBottom.fitsBelow /\ startsWith(p1, btm)
        THEN replace(p1, btm, top) ELSE p1

flipVerticalOneWay(pos, fitsWindow) ==
    IF ~fitsWindow.fromTop.fitsAbove /\ startsWith(pos, top)
    THEN replace(pos, top, btm) ELSE pos

\* lines 487-492: "top" flips to "btm" and then "btm" to "top"
flipVertical(pos, fitsWindow) ==
    LET p1 == IF ~fitsWindow.fromTop.fitsAbove /\ startsWith(pos, top)
              THEN replace(pos, top, btm) ELSE pos
    IN  IF ~fitsWindow.fromBottom.fitsBelow /\ startsWith(p1, btm)
        THEN replace(p1, btm, top) ELSE p1

collapseToCenterLeftOnly(pos, fitsWindow) ==
    IF /\ ~fitsWindow.fromLeft.fitsRight
       /\ ~fitsWindow.fromRight.fitsLeft
       /\ endsWith(pos, dash \o left)
    THEN replace(pos, left, center)
    ELSE pos

\* lines 493-501: a corner collapses to "-center" when neither side fits
collapseToCenter(pos, fitsWindow) ==
    IF /\ ~fitsWindow.fromLeft.fitsRight
       /\ ~fitsWindow.fromRight.fitsLeft
       /\ (endsWith(pos, dash \o left) \/ endsWith(pos, dash \o right))
    THEN replace(replace(pos, left, center), right, center)
    ELSE pos

centerBiasUnguarded(pos, fitsWindow) ==
    LET centered == fitsWindow.fromCenter.fitsCentered
    IN  IF endsWith(pos, center)
        THEN LET q == IF ~centered.fitsRight
                      THEN replace(pos, center, right) ELSE pos
             IN  IF ~centered.fitsLeft THEN replace(q, center, left) ELSE q
        ELSE pos

centerBiasSwapped(pos, fitsWindow) ==
    LET centered == fitsWindow.fromCenter.fitsCentered
    IN  IF endsWith(pos, center) /\ (centered.fitsRight \/ centered.fitsLeft)
        THEN LET q == IF ~centered.fitsRight
                      THEN replace(pos, center, left) ELSE pos
             IN  IF ~centered.fitsLeft THEN replace(q, center, right) ELSE q
        ELSE pos

\* lines 502-513: a "center" position is rewritten when the centred overlay
\* fits on one side only
centerBias(pos, fitsWindow) ==
    LET centered == fitsWindow.fromCenter.fitsCentered
    IN  IF endsWith(pos, center) /\ (centered.fitsRight \/ centered.fitsLeft)
        THEN LET q == IF ~centered.fitsRight
                      THEN replace(pos, center, right) ELSE pos
             IN  IF ~centered.fitsLeft THEN replace(q, center, left) ELSE q
        ELSE pos

\* lines 475-501: the working position the center rule reads
beforeCenterBias(pos, fitsWindow) ==
    collapseToCenter(
        flipVertical(flipHorizontal(sideToCorner(pos, fitsWindow), fitsWindow),
                     fitsWindow),
        fitsWindow)

\* the rules run in source order, each on the output of the one before
adjustForWindow(pos, fitsWindow) ==
    LET p2 == sideToCorner(pos, fitsWindow)
        p4 == flipHorizontal(p2, fitsWindow)
        p6 == flipVertical(p4, fitsWindow)
        p7 == collapseToCenter(p6, fitsWindow)
    IN  centerBias(p7, fitsWindow)

-----------------------------------------------------------------------------
\* left/top of the Tooltip's initial, off-screen, style
OffScreen == -9999999

initialPositionStyle ==
    [position |-> "absolute", left |-> OffScreen, top |-> OffScreen]

\* x + window.scrollX || 0
orZero(n) == IF n = 0 THEN 0 ELSE n

getPositionStyleFullWidthCenter(pos, wrapperNode) ==
    IF wrapperNode = NULL THEN NULL
    ELSE
    LET x == wrapperNode.x
        y == wrapperNode.y
        height == wrapperNode.height
        width == wrapperNode.width
        left0 == orZero(x + scrollX)
        top0 == orZero(y + scrollY)
        leftN == CASE pos = btmCenter -> left0 + width
                   [] pos = btmRight  -> left0 + width
                   [] pos = right     -> left0 + width
                   [] pos = topCenter -> left0 + width
                   [] pos = topRight  -> left0 + width
                   [] OTHER           -> left0
        topN  == CASE pos = btmCenter -> top0 + height
                   [] pos = btmLeft   -> top0 + height
                   [] pos = btmRight  -> top0 + height
                   [] pos = left      -> top0 + (height \div 2)
                   [] pos = right     -> top0 + (height \div 2)
                   [] OTHER           -> top0
    IN  [position |-> "absolute", left |-> leftN, top |-> topN]

getPositionStyleNullOnDefault(pos, wrapperNode) ==
    IF wrapperNode = NULL \/ pos \notin position THEN NULL
    ELSE
    LET x == wrapperNode.x
        y == wrapperNode.y
        height == wrapperNode.height
        width == wrapperNode.width
        left0 == orZero(x + scrollX)
        top0 == orZero(y + scrollY)
        leftN == CASE pos = btmCenter -> left0 + (width \div 2)
                   [] pos = btmRight  -> left0 + width
                   [] pos = right     -> left0 + width
                   [] pos = topCenter -> left0 + (width \div 2)
                   [] pos = topRight  -> left0 + width
                   [] OTHER           -> left0
        topN  == CASE pos = btmCenter -> top0 + height
                   [] pos = btmLeft   -> top0 + height
                   [] pos = btmRight  -> top0 + height
                   [] pos = left      -> top0 + (height \div 2)
                   [] pos = right     -> top0 + (height \div 2)
                   [] OTHER           -> top0
    IN  [position |-> "absolute", left |-> leftN, top |-> topN]

\* width / 2 and height / 2 are exact for the even sizes the model draws
getPositionStyle(pos, wrapperNode) ==
    IF wrapperNode = NULL THEN NULL
    ELSE
    LET x == wrapperNode.x
        y == wrapperNode.y
        height == wrapperNode.height
        width == wrapperNode.width
        left0 == orZero(x + scrollX)
        top0 == orZero(y + scrollY)
        leftN == CASE pos = btmCenter -> left0 + (width \div 2)
                   [] pos = btmRight  -> left0 + width
                   [] pos = right     -> left0 + width
                   [] pos = topCenter -> left0 + (width \div 2)
                   [] pos = topRight  -> left0 + width
                   [] OTHER           -> left0
        topN  == CASE pos = btmCenter -> top0 + height
                   [] pos = btmLeft   -> top0 + height
                   [] pos = btmRight  -> top0 + height
                   [] pos = left      -> top0 + (height \div 2)
                   [] pos = right     -> top0 + (height \div 2)
                   [] OTHER           -> top0
    IN  [position |-> "absolute", left |-> leftN, top |-> topN]

\* bounds of the rectangles and scroll offsets getPositionStyle is applied to
MaxCoord == 1
MaxHalf == 1
MaxScroll == 1

RectXs == (-MaxCoord..MaxCoord) \cup {10}
RectYs == (-MaxCoord..MaxCoord) \cup {20}
RectWidths == {2 * k : k \in 0..MaxHalf} \cup {100}
RectHeights == {2 * k : k \in 0..MaxHalf} \cup {50}
Rects == [x : RectXs, y : RectYs, width : RectWidths, height : RectHeights]

-----------------------------------------------------------------------------
\* the variables of a part no action of the running specification touches
ResolverIdle ==
    /\ rPosition = topLeft
    /\ rFits = CHOOSE f \in WindowFitment : TRUE
    /\ rResult = topLeft
    /\ rPrevious = topLeft
    /\ rRuns = 0

MenuIdle ==
    /\ closeOnEsc = TRUE
    /\ closeOnOutsideClick = TRUE
    /\ positionNode = "none"
    /\ hasToggle = TRUE
    /\ visible = FALSE
    /\ previousVisible = <<FALSE>>
    /\ menuIsOpen = FALSE
    /\ positionCoords = 1
    /\ toggleCalls = <<>>
    /\ anchorRect = 1
    /\ anchorHidden = FALSE

TooltipIdle ==
    /\ tipIsOpen = FALSE
    /\ timer = 0
    /\ timers = <<>>
    /\ staleTimers = {}
    /\ openedBy = 0
    /\ hoverActive = FALSE
    /\ opens = 0
    /\ mounted = FALSE
    /\ followMouse = FALSE
    /\ autoAdjust = TRUE
    /\ tipPosition = topLeft
    /\ adjustedPosition = topLeft
    /\ positionStyle = initialPositionStyle
    /\ wrapperRect = CHOOSE r \in Rects : TRUE
    /\ windowFits = CHOOSE f \in WindowFitment : TRUE
    /\ pointer = <<0, 0>>

GeometryIdle ==
    /\ gPos = topLeft
    /\ gNode = NULL
    /\ gStyle = initialPositionStyle

WindowIdle ==
    /\ scrollX = 0
    /\ scrollY = 0

-----------------------------------------------------------------------------
(* SpecResolver: adjustForWindow on every requested position and fitment,  *)
(* then once more on its own output with the same fitment.                 *)

InitResolver ==
    /\ rPosition \in position
    /\ rFits \in WindowFitment
    /\ rResult = rPosition      \* useState(position)
    /\ rPrevious = rPosition
    /\ rRuns = 0
    /\ lastEvent = "init"
    /\ GeometryIdle /\ WindowIdle /\ MenuIdle /\ TooltipIdle

\* onUpdateWindowFitment's computation on the requested position
Resolve ==
    /\ rRuns = 0
    /\ rResult' = adjustForWindow(rPosition, rFits)
    /\ rPrevious' = rResult
    /\ rRuns' = 1
    /\ lastEvent' = "resolve"
    /\ UNCHANGED <<rPosition, rFits, geometryVars, windowVars, menuVars, tooltipVars>>

\* the resolver re-run on its own output with the same fitment
ResolveAgain ==
    /\ rRuns = 1
    /\ rResult' = adjustForWindow(rResult, rFits)
    /\ rPrevious' = rResult
    /\ rRuns' = 2
    /\ lastEvent' = "resolveAgain"
    /\ UNCHANGED <<rPosition, rFits, geometryVars, windowVars, menuVars, tooltipVars>>

NextResolver == Resolve \/ ResolveAgain

vars == <<resolverVars, geometryVars, windowVars, menuVars, tooltipVars, lastEvent>>

SpecResolver == InitResolver /\ [][NextResolver]_vars

-----------------------------------------------------------------------------
(* SpecGeometry: getPositionStyle on every position, bounded rectangle     *)
(* (or no anchor) and scroll offset.                                       *)

\* the positions getPositionStyle is applied to: the enumerated ones and one
\* the switch does not recognise (the menu's "center")
GeometryPositions == position \cup {center}

InitGeometry ==
    /\ gPos \in GeometryPositions
    /\ gNode \in Rects \cup {NULL}
    /\ gStyle = initialPositionStyle
    /\ scrollX \in 0..MaxScroll
    /\ scrollY \in 0..MaxScroll
    /\ lastEvent = "init"
    /\ ResolverIdle /\ MenuIdle /\ TooltipIdle

\* setPositionStyle(getPositionStyle(adjustedPosition, wrapperRef.current))
Measure ==
    /\ lastEvent = "init"
    /\ gStyle' = getPositionStyle(gPos, gNode)
    /\ lastEvent' = "measure"
    /\ UNCHANGED <<gPos, gNode, resolverVars, windowVars, menuVars, tooltipVars>>

NextGeometry == Measure

SpecGeometry == InitGeometry /\ [][NextGeometry]_vars

-----------------------------------------------------------------------------
(* ContextualMenu.  The mutable part of the component is carried through   *)
(* the handlers as a record m = [isOpen, positionCoords, toggleCalls].     *)

\* no DOM node (null)
NoNode == "none"

\* bounds: the number of distinct layouts the anchor is measured in, and the
\* number of onToggleMenu calls recorded
MaxLayouts == 2
MaxCalls == 4

getPositionNode(wrapper, pNode) ==
    IF pNode # NoNode THEN pNode
    ELSE IF wrapper # NoNode
         THEN (IF hasToggle THEN "toggle" ELSE wrapper)
         ELSE NoNode

getPositionNodeVisibleInverted(pNode) ==
    pNode = NoNode \/ anchorHidden

getPositionNodeVisible(pNode) ==
    pNode = NoNode \/ ~anchorHidden

updatePositionCoords(m) ==
    LET parent == getPositionNode("wrapper", positionNode)
    IN  IF parent = NoNode THEN m
        ELSE [m EXCEPT !.positionCoords = anchorRect]

\* usePortal's onOpen option
onOpen(m) ==
    updatePositionCoords([m EXCEPT !.toggleCalls = Append(@, TRUE)])

\* usePortal's onClose option
onClose(m) ==
    [m EXCEPT !.toggleCalls = Append(@, FALSE)]

\* the portal: openPortal runs onOpen and sets isOpen
openPortal(m) ==
    [onOpen(m) EXCEPT !.isOpen = TRUE]

\* the portal: closePortal runs onClose and clears isOpen, when open
closePortal(m) ==
    IF m.isOpen THEN [onClose(m) EXCEPT !.isOpen = FALSE] ELSE m

visibleEffectEveryRender(m, vis, prevVis) ==
    IF vis /\ ~m.isOpen THEN openPortal(m)
    ELSE IF ~vis /\ m.isOpen THEN closePortal(m)
    ELSE m

visibleEffectIgnoresIsOpen(m, vis, prevVis) ==
    IF <<vis>> # prevVis
    THEN IF vis THEN openPortal(m)
         ELSE IF ~vis /\ m.isOpen THEN closePortal(m)
         ELSE m
    ELSE m

\* the effect that follows the visible prop; prevVis is usePrevious(visible)
visibleEffect(m, vis, prevVis) ==
    IF <<vis>> # prevVis
    THEN IF vis /\ ~m.isOpen THEN openPortal(m)
         ELSE IF ~vis /\ m.isOpen THEN closePortal(m)
         ELSE m
    ELSE m

\* The render that follows an event: the effect runs with the value of
\* visible that the previous render committed; when it changes the state the
\* component renders again, now with previousVisible = visible.
render(m, vis, prevVis) ==
    LET m1 == visibleEffect(m, vis, prevVis)
    IN  IF m1 = m THEN m ELSE visibleEffect(m1, vis, <<vis>>)

toggleOnClickAlwaysOpens(m) ==
    openPortal(m)

\* the toggle button's onClick
toggleOnClick(m) ==
    IF ~m.isOpen THEN openPortal(m) ELSE closePortal(m)

onResize(m) ==
    LET parent == getPositionNode("wrapper", positionNode)
    IN  IF parent # NoNode /\ ~getPositionNodeVisible(parent)
        THEN closePortal(m)
        ELSE updatePositionCoords(m)

\* the portal's keydown listener
portalEscape(m) ==
    IF closeOnEsc THEN closePortal(m) ELSE m

\* the portal's mousedown listener, for a click outside the menu and its toggle
portalOutsideClick(m) ==
    IF m.isOpen /\ closeOnOutsideClick THEN closePortal(m) ELSE m

menuState ==
    [isOpen |-> menuIsOpen, positionCoords |-> positionCoords,
     toggleCalls |-> toggleCalls]

\* commit the record a handler and the render after it produced
MenuCommit(m, vis, event) ==
    /\ menuIsOpen' = m.isOpen
    /\ positionCoords' = m.positionCoords
    /\ toggleCalls' = m.toggleCalls
    /\ visible' = vis
    /\ previousVisible' = <<vis>>
    /\ lastEvent' = event
    /\ UNCHANGED <<menuProps, resolverVars, geometryVars, windowVars, tooltipVars>>

\* the state after the component mounted: usePortal({isOpen: visible}), the
\* wrapper ref callback measured the anchor, the first render's effect ran
\* with previousVisible undefined
InitMenu ==
    /\ closeOnEsc \in BOOLEAN
    /\ closeOnOutsideClick \in BOOLEAN
    /\ positionNode \in {NoNode, "positionNode"}
    /\ hasToggle \in BOOLEAN
    /\ visible \in BOOLEAN
    /\ anchorRect \in 1..MaxLayouts
    /\ anchorHidden = FALSE
    /\ LET m0 == [isOpen |-> visible, positionCoords |-> anchorRect,
                  toggleCalls |-> <<>>]
           m1 == render(m0, visible, <<>>)
       IN  /\ menuIsOpen = m1.isOpen
           /\ positionCoords = m1.positionCoords
           /\ toggleCalls = m1.toggleCalls
    /\ previousVisible = <<visible>>
    /\ lastEvent = "init"
    /\ ResolverIdle /\ GeometryIdle /\ WindowIdle /\ TooltipIdle

ToggleClick ==
    /\ hasToggle
    /\ Len(toggleCalls) < MaxCalls
    /\ MenuCommit(render(toggleOnClick(menuState), visible, previousVisible),
                  visible, "toggle")
    /\ UNCHANGED <<anchorRect, anchorHidden>>

MenuEscape ==
    /\ Len(toggleCalls) < MaxCalls
    /\ MenuCommit(render(portalEscape(menuState), visible, previousVisible),
                  visible, "escape")
    /\ UNCHANGED <<anchorRect, anchorHidden>>

MenuOutsideClick ==
    /\ Len(toggleCalls) < MaxCalls
    /\ MenuCommit(render(portalOutsideClick(menuState), visible, previousVisible),
                  visible, "outsideClick")
    /\ UNCHANGED <<anchorRect, anchorHidden>>

\* the page lays the positioning node out anew, or hides it
LayoutChange ==
    \E rect \in 1..MaxLayouts, hidden \in BOOLEAN :
        /\ <<rect, hidden>> # <<anchorRect, anchorHidden>>
        /\ anchorRect' = rect
        /\ anchorHidden' = hidden
        /\ lastEvent' = "layout"
        /\ UNCHANGED <<menuProps, visible, previousVisible, menuIsOpen,
                       positionCoords, toggleCalls, resolverVars, geometryVars,
                       windowVars, tooltipVars>>

\* a window resize event; useListener attaches onResize only while isOpen
MenuResize ==
    /\ Len(toggleCalls) < MaxCalls
    /\ LET m == IF menuIsOpen THEN onResize(menuState) ELSE menuState
       IN  MenuCommit(render(m, visible, previousVisible), visible, "resize")
    /\ UNCHANGED <<anchorRect, anchorHidden>>

\* the parent renders the menu with another value of visible
SetVisible ==
    /\ Len(toggleCalls) < MaxCalls
    /\ MenuCommit(render(menuState, ~visible, previousVisible), ~visible, "visible")
    /\ UNCHANGED <<anchorRect, anchorHidden>>

NextMenu ==
    \/ ToggleClick
    \/ MenuEscape
    \/ MenuOutsideClick
    \/ LayoutChange
    \/ MenuResize
    \/ SetVisible

SpecMenu == InitMenu /\ [][NextMenu]_vars

-----------------------------------------------------------------------------
(* Tooltip.  The state the handlers and effects write is carried through   *)
(* them as a record t = [isOpen, timer, timers, adjustedPosition,          *)
(* positionStyle].                                                         *)

\* bound: the number of setTimeout calls in a run
MaxTimers == 3

\* bound: the largest pageX / pageY of a pointer-move event
MaxPage == 1

TimerIds == 1..MaxTimers

\* the <<pageX, pageY>> of the pointer-move events
PagePoints == {<<x, MaxPage - x>> : x \in 0..MaxPage}

Misfits(f) ==
    Cardinality({b \in {f.fromLeft.fitsLeft, f.fromLeft.fitsRight} : ~b})
    + Cardinality({b \in {f.fromRight.fitsLeft, f.fromRight.fitsRight} : ~b})
    + Cardinality({b \in {f.fromTop.fitsAbove} : ~b})
    + Cardinality({b \in {f.fromBottom.fitsBelow} : ~b})
    + Cardinality({b \in {f.fromCenter.fitsCentered.fitsLeft,
                          f.fromCenter.fitsCentered.fitsRight} : ~b})

\* the fitments a measurement returns: at most one flag false
TipFitments == {f \in WindowFitment : Misfits(f) <= 1}

\* the rectangles of the anchor
TipRects ==
    {[x |-> 10, y |-> 20, width |-> 100, height |-> 50],
     [x |-> MaxCoord, y |-> 0, width |-> 2 * MaxHalf, height |-> 4 * MaxHalf]}

\* the requested positions of the placement specification
TipPositions == {topLeft, btmCenter, right}

\* the handle setTimeout returns next
newHandle(ts) ==
    CHOOSE id \in TimerIds :
        /\ ts[id] = "unused"
        /\ \A j \in TimerIds : ts[j] = "unused" => id <= j

\* clearTimeout: cancels a pending timer; null, a fired or a cleared handle is
\* a no-op
clearTimeout(ts, handle) ==
    IF handle \in TimerIds /\ ts[handle] = "pending"
    THEN [ts EXCEPT ![handle] = "cleared"]
    ELSE ts

\* the portal (programmaticallyOpen): openPortal sets isOpen
tipOpenPortal(t) ==
    [t EXCEPT !.isOpen = TRUE]

\* the portal: closePortal clears isOpen
tipClosePortal(t) ==
    [t EXCEPT !.isOpen = FALSE]

cancelableClosePortalOnlyPending(t) ==
    IF t.timer \in TimerIds /\ t.timers[t.timer] = "pending"
    THEN tipClosePortal([t EXCEPT !.timers = clearTimeout(t.timers, t.timer)])
    ELSE t

cancelableClosePortal(t) ==
    tipClosePortal([t EXCEPT !.timers = clearTimeout(t.timers, t.timer)])

delayedOpenPortal(t) ==
    LET timeout == newHandle(t.timers)
    IN  [t EXCEPT !.timers[timeout] = "pending", !.timer = timeout]

timerCallbackNeverCalls(t) ==
    t

\* () => openPortal(), the function handed to setTimeout
timerCallback(t) ==
    tipOpenPortal(t)

handleKeyPress(t, key) ==
    IF key = "Escape" THEN cancelableClosePortal(t) ELSE t

\* messageRef.current: the message is mounted while the portal is open
messageRef(t) ==
    IF t.isOpen THEN "message" ELSE NoNode

handleBlurClosesIgnoresFocus(t, focusWithin, relatedTarget, target) ==
    IF relatedTarget # NoNode
    THEN ~(messageRef(t) # NoNode /\ relatedTarget = "message")
    ELSE target # messageRef(t)

\* the condition under which handleBlur calls cancelableClosePortal.
\* focusWithin: wrapperRef.current contains document.activeElement;
\* relatedTarget: NoNode, "message" (inside the message) or "elsewhere";
\* target: "anchor" or "message"
handleBlurCloses(t, focusWithin, relatedTarget, target) ==
    /\ ~focusWithin
    /\ IF relatedTarget # NoNode
       THEN ~(messageRef(t) # NoNode /\ relatedTarget = "message")
       ELSE target # messageRef(t)

handleBlur(t, focusWithin, relatedTarget, target) ==
    IF handleBlurCloses(t, focusWithin, relatedTarget, target)
    THEN cancelableClosePortal(t)
    ELSE t

\* targetInMessage: messageRef.current contains e.target
handleClick(t, targetInMessage) ==
    IF targetInMessage THEN t ELSE tipOpenPortal(t)

\* the portal's mousedown listener (closeOnOutsideClick defaults to true)
tipOutsideClick(t) ==
    IF t.isOpen THEN tipClosePortal(t) ELSE t

mouseHandler(t, pageX, pageY) ==
    [t EXCEPT !.positionStyle =
        [pointerEvents |-> "none", position |-> "absolute",
         left |-> pageX, top |-> pageY]]

\* useListener(wrapperRef.current, mouseHandler, "mousemove", true,
\* followMouse && isOpen): the handler is attached while the condition holds
mousemoveListener(t, pageX, pageY) ==
    IF followMouse /\ t.isOpen THEN mouseHandler(t, pageX, pageY) ELSE t

onUpdateWindowFitmentFromAdjusted(t, fitsWindow) ==
    [t EXCEPT !.adjustedPosition = adjustForWindow(t.adjustedPosition, fitsWindow)]

onUpdateWindowFitment(t, fitsWindow) ==
    [t EXCEPT !.adjustedPosition = adjustForWindow(tipPosition, fitsWindow)]

\* the last argument of the useWindowFitment call
fitmentEnabled ==
    autoAdjust /\ followMouse

\* useWindowFitment(target, anchor, callback, 20, isOpen, enabled): when
\* enabled, measures and calls back on every open and on every window resize
\* while open, the anchor being mounted.  old is the state the event started
\* from.
useWindowFitment(old, t, resized, rect, fitsWindow) ==
    IF fitmentEnabled /\ rect # NULL /\ t.isOpen /\ (resized \/ ~old.isOpen)
    THEN onUpdateWindowFitment(t, fitsWindow)
    ELSE t

positionEffectIgnoresFollowMouse(old, t, rect) ==
    IF (t.adjustedPosition # old.adjustedPosition \/ t.isOpen # old.isOpen)
       /\ t.isOpen /\ rect # NULL
    THEN [t EXCEPT !.positionStyle = getPositionStyle(t.adjustedPosition, rect)]
    ELSE t

positionEffectWithoutAnchor(old, t, rect) ==
    IF (t.adjustedPosition # old.adjustedPosition \/ t.isOpen # old.isOpen)
       /\ t.isOpen /\ ~followMouse
    THEN [t EXCEPT !.positionStyle = getPositionStyle(t.adjustedPosition, rect)]
    ELSE t

\* the effect with dependencies [adjustedPosition, isOpen, followMouse]; the
\* prop followMouse does not change; rect is wrapperRef.current, NULL while no
\* anchor is mounted
positionEffect(old, t, rect) ==
    IF (t.adjustedPosition # old.adjustedPosition \/ t.isOpen # old.isOpen)
       /\ t.isOpen /\ ~followMouse /\ rect # NULL
    THEN [t EXCEPT !.positionStyle = getPositionStyle(t.adjustedPosition, rect)]
    ELSE t

\* the renders that follow an event, up to the one that changes nothing
tipRender(old, t, resized, rect, fitsWindow) ==
    positionEffect(old, useWindowFitment(old, t, resized, rect, fitsWindow), rect)

tipState ==
    [isOpen |-> tipIsOpen, timer |-> timer, timers |-> timers,
     adjustedPosition |-> adjustedPosition, positionStyle |-> positionStyle]

Scheduled(ts) == {id \in TimerIds : ts[id] # "unused"}

\* commit the record a handler produced, after the renders that follow it,
\* with the history of the step: by = the timer whose callback ran (0 for
\* none); dismissed = the handler called cancelableClosePortal; trigger = the
\* event is a dismiss trigger; rect, fitsWindow = the anchor's rectangle and
\* the window's fitment when the event is handled
TipCommitAt(t, event, by, dismissed, trigger, rect, fitsWindow) ==
    LET r == tipRender(tipState, t, event = "resize", rect, fitsWindow)
    IN  /\ mounted
        /\ tipIsOpen' = r.isOpen
        /\ timer' = r.timer
        /\ timers' = r.timers
        /\ adjustedPosition' = r.adjustedPosition
        /\ positionStyle' = r.positionStyle
        /\ wrapperRect' = rect
        /\ windowFits' = fitsWindow
        /\ lastEvent' = event
        /\ staleTimers' = IF dismissed THEN Scheduled(timers) ELSE staleTimers
        /\ openedBy' = IF ~r.isOpen THEN 0
                       ELSE IF ~tipIsOpen THEN by
                       ELSE openedBy
        /\ opens' = IF trigger THEN 0
                    ELSE IF ~tipIsOpen /\ r.isOpen THEN opens + 1
                    ELSE opens
        /\ hoverActive' = IF trigger THEN FALSE
                          ELSE IF event = "mouseover" THEN TRUE
                          ELSE hoverActive
        /\ UNCHANGED <<mounted, tipProps>>
        /\ UNCHANGED <<resolverVars, geometryVars, windowVars, menuVars>>

TipCommit(t, event, by, dismissed, trigger) ==
    /\ TipCommitAt(t, event, by, dismissed, trigger, wrapperRect, windowFits)
    /\ UNCHANGED pointer

\* the message prop is not empty: the wrapping span with its handlers and
\* the anchor span are rendered
anchorMounted ==
    wrapperRect # NULL

\* the state of a Tooltip that has just mounted
TipMounted ==
    /\ mounted = TRUE
    /\ tipIsOpen = FALSE
    /\ timer = 0
    /\ timers = [id \in TimerIds |-> "unused"]
    /\ adjustedPosition = tipPosition
    /\ positionStyle = initialPositionStyle
    /\ pointer = <<0, MaxPage>>
    /\ staleTimers = {}
    /\ openedBy = 0
    /\ hoverActive = FALSE
    /\ opens = 0
    /\ lastEvent = "init"

\* the props at their defaults, a window in which everything fits
InitTooltip ==
    /\ followMouse = FALSE
    /\ autoAdjust = TRUE
    /\ tipPosition = topLeft
    /\ wrapperRect = [x |-> 10, y |-> 20, width |-> 100, height |-> 50]
    /\ windowFits \in {f \in WindowFitment : Misfits(f) = 0}
    /\ TipMounted
    /\ ResolverIdle /\ GeometryIdle /\ WindowIdle /\ MenuIdle

\* onMouseOver: fires for every mouseover that bubbles to the wrapping span
MouseOver ==
    /\ anchorMounted
    /\ \E id \in TimerIds : timers[id] = "unused"
    /\ TipCommit(delayedOpenPortal(tipState), "mouseover", 0, FALSE, FALSE)

\* the delay of a pending timer elapses; the callback of a timer that outlives
\* the component finds nothing to open
TimerFire(id) ==
    /\ timers[id] = "pending"
    /\ IF mounted
       THEN TipCommit(timerCallback([tipState EXCEPT !.timers[id] = "fired"]),
                      "timer", id, FALSE, FALSE)
       ELSE /\ timers' = [timers EXCEPT ![id] = "fired"]
            /\ lastEvent' = "timer"
            /\ UNCHANGED <<tipIsOpen, timer, staleTimers, openedBy, hoverActive,
                           opens, mounted, tipProps, adjustedPosition,
                           positionStyle, wrapperRect, windowFits, pointer>>
            /\ UNCHANGED <<resolverVars, geometryVars, windowVars, menuVars>>

\* onFocus={openPortal}
Focus ==
    /\ anchorMounted
    /\ TipCommit(tipOpenPortal(tipState), "focus", 0, FALSE, FALSE)

Click ==
    \E targetInMessage \in BOOLEAN :
        /\ anchorMounted
        /\ targetInMessage => tipIsOpen
        /\ TipCommit(handleClick(tipState, targetInMessage), "click", 0, FALSE, FALSE)

BlurInputs ==
    {e \in [focusWithin : BOOLEAN,
            relatedTarget : {NoNode, "message", "elsewhere"},
            target : {"anchor", "message"}] :
        (e.relatedTarget = "message" \/ e.target = "message") => tipIsOpen}

\* onBlur={handleBlur}
Blur ==
    \E e \in BlurInputs :
        LET closes == handleBlurCloses(tipState, e.focusWithin, e.relatedTarget, e.target)
        IN  /\ anchorMounted
            /\ TipCommit(handleBlur(tipState, e.focusWithin, e.relatedTarget, e.target),
                         "blur", 0, closes, closes)

\* onMouseOut={handleBlur}
MouseOut ==
    \E e \in BlurInputs :
        LET closes == handleBlurCloses(tipState, e.focusWithin, e.relatedTarget, e.target)
        IN  /\ anchorMounted
            /\ TipCommit(handleBlur(tipState, e.focusWithin, e.relatedTarget, e.target),
                         "mouseout", 0, closes, closes)

\* the window's keypress listener
KeyPress ==
    \E key \in {"Escape", "a"} :
        TipCommit(handleKeyPress(tipState, key), "keypress:" \o key, 0,
                  key = "Escape", key = "Escape")

\* a click outside the tooltip, handled by the portal
TipOutsideClick ==
    TipCommit(tipOutsideClick(tipState), "outsideClick", 0, FALSE, TRUE)

\* a pointer-move over the anchor
MouseMove ==
    \E p \in PagePoints :
        /\ anchorMounted
        /\ TipCommitAt(mousemoveListener(tipState, p[1], p[2]), "mousemove",
                       0, FALSE, FALSE, wrapperRect, windowFits)
        /\ pointer' = p

\* a window resize: the anchor's rectangle and the fitment may have changed;
\* the only resize listener is the one useWindowFitment attaches
TipResize ==
    \E rect \in TipRects, fitsWindow \in TipFitments :
        /\ TipCommitAt(tipState, "resize", 0, FALSE, FALSE,
                       IF anchorMounted THEN rect ELSE NULL, fitsWindow)
        /\ UNCHANGED pointer

\* the component unmounts: the overlay goes with it, the effect clean-up
\* removes the keypress listener, nothing touches the timer
Unmount ==
    /\ mounted
    /\ mounted' = FALSE
    /\ tipIsOpen' = FALSE
    /\ lastEvent' = "unmount"
    /\ openedBy' = 0
    /\ opens' = 0
    /\ hoverActive' = FALSE
    /\ UNCHANGED <<timer, timers, staleTimers, tipProps, adjustedPosition,
                   positionStyle, wrapperRect, windowFits, pointer>>
    /\ UNCHANGED <<resolverVars, geometryVars, windowVars, menuVars>>

\* the parent renders the Tooltip with the message prop emptied or filled:
\* the anchor goes or comes back; no dependency of the position effect changes
SetMessage ==
    \E rect \in TipRects :
        /\ TipCommitAt(tipState, "message", 0, FALSE, FALSE,
                       IF anchorMounted THEN NULL ELSE rect, windowFits)
        /\ UNCHANGED pointer

NextTooltip ==
    \/ MouseOver
    \/ \E id \in TimerIds : TimerFire(id)
    \/ Focus
    \/ Click
    \/ Blur
    \/ MouseOut
    \/ KeyPress
    \/ TipOutsideClick
    \/ Unmount

SpecTooltip == InitTooltip /\ [][NextTooltip]_vars

\* the host's event loop runs the callback of every timer that stays pending
FairSpecTooltip ==
    SpecTooltip /\ \A id \in TimerIds : WF_vars(TimerFire(id))

\* SpecTooltipStyle: follow-mouse mode on or off, hover timers, the message
\* prop emptied and filled while they run; the tooltip is opened by hover and
\* focus and dismissed by mouse-out and Escape
InitTooltipStyle ==
    /\ followMouse \in BOOLEAN
    /\ autoAdjust = TRUE
    /\ tipPosition = topLeft
    /\ wrapperRect \in TipRects \cup {NULL}
    /\ windowFits \in {f \in WindowFitment : Misfits(f) = 0}
    /\ TipMounted
    /\ ResolverIdle /\ GeometryIdle /\ WindowIdle /\ MenuIdle

NextTooltipStyle ==
    \/ MouseOver
    \/ \E id \in TimerIds : TimerFire(id)
    \/ Focus
    \/ MouseOut
    \/ KeyPress
    \/ MouseMove
    \/ SetMessage

SpecTooltipStyle == InitTooltipStyle /\ [][NextTooltipStyle]_vars

\* SpecTooltipPosition: every value of the props, a window that is resized,
\* the tooltip opened by focus and click
InitTooltipPosition ==
    /\ followMouse \in BOOLEAN
    /\ autoAdjust \in BOOLEAN
    /\ tipPosition \in TipPositions
    /\ wrapperRect \in TipRects
    /\ windowFits \in TipFitments
    /\ TipMounted
    /\ ResolverIdle /\ GeometryIdle /\ WindowIdle /\ MenuIdle

NextTooltipPosition ==
    \/ Focus
    \/ Click
    \/ Blur
    \/ MouseOut
    \/ KeyPress
    \/ TipOutsideClick
    \/ MouseMove
    \/ TipResize
    \/ Unmount

SpecTooltipPosition == InitTooltipPosition /\ [][NextTooltipPosition]_vars

-----------------------------------------------------------------------------
AllFit(f) ==
    /\ f.fromLeft.fitsLeft /\ f.fromLeft.fitsRight
    /\ f.fromRight.fitsLeft /\ f.fromRight.fitsRight
    /\ f.fromTop.fitsAbove /\ f.fromBottom.fitsBelow
    /\ f.fromCenter.fitsCentered.fitsLeft /\ f.fromCenter.fitsCentered.fitsRight

\* the centred overlay fits on exactly one side
FitsCenteredOneSide(f) ==
    f.fromCenter.fitsCentered.fitsLeft # f.fromCenter.fitsCentered.fitsRight

\* C1: once a dismiss trigger (mouse-out, blur, Escape) has been handled, no
\* timer scheduled before it opens the tooltip, however many mouse-over events
\* the hover session held.
C1_DismissedTimerNeverOpens ==
    ~(tipIsOpen /\ openedBy \in staleTimers)

NoTimerPending ==
    \A id \in TimerIds : timers[id] # "pending"

\* C2: a hover that no dismiss trigger follows leads to Open; once its delay
\* has elapsed the tooltip is Open, and between two dismiss triggers the
\* tooltip goes from Closed to Open at most once, timers that fire while it is
\* Open changing nothing.
C2_HoverOpensOnce ==
    /\ hoverActive ~> (tipIsOpen \/ ~hoverActive)
    /\ []((hoverActive /\ NoTimerPending) => tipIsOpen)
    /\ [](opens <= 1)
    /\ [][(tipIsOpen /\ lastEvent' = "timer") => (tipIsOpen' /\ opens' = opens)]_vars

\* two mouse-overs, no dismiss: the first timer opened the tooltip, the second
\* fired while it was Open
C2_Witness ==
    /\ hoverActive
    /\ tipIsOpen
    /\ openedBy = 1
    /\ opens = 1
    /\ timers[1] = "fired"
    /\ timers[2] = "fired"
    /\ lastEvent = "timer"

C4_AllFitUnchanged ==
    (rRuns = 1 /\ AllFit(rFits)) => rResult = rPosition

C4_Witness ==
    /\ rRuns = 1
    /\ AllFit(rFits)
    /\ rPosition = btmRight
    /\ rResult = btmRight

\* C5: whatever the requested position and the fitment, the returned value is
\* one of the eight enumerated positions.
C5_ResultEnumerated ==
    rRuns >= 1 => rResult \in position

\* a run that rewrote both the vertical prefix and the horizontal suffix
C5_Witness ==
    /\ rRuns = 1
    /\ rPosition = topLeft
    /\ rResult = btmCenter

\* C6: a toggle click flips the menu; an Open menu closes on escape exactly
\* when closeOnEsc is set, on an outside click exactly when closeOnOutsideClick
\* is set, and on a resize with the anchor hidden; a Closed menu opens only on
\* a toggle click or on the visible prop becoming true.
C6_MenuStateMachine ==
    [][/\ (lastEvent' = "toggle") => (menuIsOpen' = ~menuIsOpen)
       /\ (menuIsOpen /\ lastEvent' = "escape") => (menuIsOpen' = ~closeOnEsc)
       /\ (menuIsOpen /\ lastEvent' = "outsideClick")
              => (menuIsOpen' = ~closeOnOutsideClick)
       /\ (menuIsOpen /\ lastEvent' = "resize" /\ anchorHidden) => ~menuIsOpen'
       /\ (~menuIsOpen /\ menuIsOpen')
              => \/ lastEvent' = "toggle"
                 \/ (lastEvent' = "visible" /\ ~visible /\ visible')]_vars

\* a menu opened by its toggle and closed again by the same toggle
C6_Witness ==
    /\ lastEvent = "toggle"
    /\ ~menuIsOpen
    /\ ~visible
    /\ toggleCalls = <<TRUE, FALSE>>

\* C7: a resize while Open closes the menu without re-measuring when the
\* positioning node is hidden, and otherwise re-measures the anchor rectangle
\* and leaves the menu Open.
C7_ResizeHandling ==
    [][(menuIsOpen /\ lastEvent' = "resize") =>
          IF anchorHidden
          THEN ~menuIsOpen' /\ positionCoords' = positionCoords
          ELSE menuIsOpen' /\ positionCoords' = anchorRect]_vars

\* a resize closed the menu and kept the rectangle of an earlier layout
C7_Witness ==
    /\ lastEvent = "resize"
    /\ ~menuIsOpen
    /\ anchorHidden
    /\ positionCoords # anchorRect
    /\ toggleCalls = <<TRUE, FALSE>>

Alternates(calls) ==
    \A i \in 1..(Len(calls) - 1) : calls[i] # calls[i + 1]

\* C8: onToggleMenu is called once with true on every Closed-to-Open
\* transition, once with false on every Open-to-Closed transition and not
\* otherwise; so its arguments alternate and the last one is the open state.
C8_ToggleCallbacks ==
    /\ [](/\ Alternates(toggleCalls)
          /\ (toggleCalls # <<>> => toggleCalls[Len(toggleCalls)] = menuIsOpen))
    /\ [][/\ (~menuIsOpen /\ menuIsOpen') => toggleCalls' = Append(toggleCalls, TRUE)
          /\ (menuIsOpen /\ ~menuIsOpen') => toggleCalls' = Append(toggleCalls, FALSE)
          /\ (menuIsOpen' = menuIsOpen) => toggleCalls' = toggleCalls]_vars

\* the visible prop opened a menu that the toggle had opened and closed before
C8_Witness ==
    /\ lastEvent = "visible"
    /\ menuIsOpen
    /\ toggleCalls = <<TRUE, FALSE, TRUE>>

\* C9: visible going false -> true opens a Closed menu and true -> false closes
\* an Open one; while visible does not change the effect neither opens nor
\* closes: the open state is the one the event's own handler left, so a menu
\* dismissed by escape or outside click while visible is true stays Closed.
C9_VisibleProp ==
    [][/\ (lastEvent' = "visible" /\ ~visible /\ visible' /\ ~menuIsOpen)
              => menuIsOpen'
       /\ (lastEvent' = "visible" /\ visible /\ ~visible' /\ menuIsOpen)
              => ~menuIsOpen'
       /\ (visible' = visible /\ lastEvent' = "escape")
              => menuIsOpen' = portalEscape(menuState).isOpen
       /\ (visible' = visible /\ lastEvent' = "outsideClick")
              => menuIsOpen' = portalOutsideClick(menuState).isOpen
       /\ (visible' = visible /\ lastEvent' = "toggle")
              => menuIsOpen' = ~menuIsOpen
       /\ (visible' = visible /\ lastEvent' = "resize")
              => menuIsOpen' = (menuIsOpen /\ ~anchorHidden)
       /\ (visible /\ visible' /\ menuIsOpen /\ closeOnEsc /\ lastEvent' = "escape")
              => ~menuIsOpen'
       /\ (visible /\ visible' /\ menuIsOpen /\ closeOnOutsideClick
             /\ lastEvent' = "outsideClick")
              => ~menuIsOpen']_vars

\* a menu shown through the visible prop, dismissed by escape, visible still true
C9_Witness ==
    /\ lastEvent = "escape"
    /\ visible
    /\ ~menuIsOpen
    /\ toggleCalls = <<TRUE, FALSE>>

\* C10: for an anchor rectangle with even width and height, the style is
\* "absolute" at the rectangle's corner, edge midpoint or edge named by the
\* position, shifted by the scroll offsets; {10,20,100,50} without scroll gives
\* (10,20) for top-left and (60,70) for btm-center.
C10_Expected(pos, r, sx, sy) ==
    CASE pos = topLeft   -> <<r.x + sx, r.y + sy>>
      [] pos = topCenter -> <<r.x + sx + r.width \div 2, r.y + sy>>
      [] pos = topRight  -> <<r.x + sx + r.width, r.y + sy>>
      [] pos = btmLeft   -> <<r.x + sx, r.y + sy + r.height>>
      [] pos = btmCenter -> <<r.x + sx + r.width \div 2, r.y + sy + r.height>>
      [] pos = btmRight  -> <<r.x + sx + r.width, r.y + sy + r.height>>
      [] pos = left      -> <<r.x + sx, r.y + sy + r.height \div 2>>
      [] pos = right     -> <<r.x + sx + r.width, r.y + sy + r.height \div 2>>

C10_SpecRect == [x |-> 10, y |-> 20, width |-> 100, height |-> 50]

C10_StyleCoordinates ==
    (lastEvent = "measure" /\ gNode # NULL /\ gPos \in position) =>
        /\ gStyle.position = "absolute"
        /\ <<gStyle.left, gStyle.top>> = C10_Expected(gPos, gNode, scrollX, scrollY)
        /\ (gNode = C10_SpecRect /\ scrollX = 0 /\ scrollY = 0 /\ gPos = topLeft)
              => (gStyle.left = 10 /\ gStyle.top = 20)
        /\ (gNode = C10_SpecRect /\ scrollX = 0 /\ scrollY = 0 /\ gPos = btmCenter)
              => (gStyle.left = 60 /\ gStyle.top = 70)

C10_Witness ==
    /\ lastEvent = "measure"
    /\ gNode = C10_SpecRect
    /\ scrollX = 0 /\ scrollY = 0
    /\ gPos = btmCenter
    /\ gStyle = [position |-> "absolute", left |-> 60, top |-> 70]

\* C11: getPositionStyle returns null exactly when no anchor element is
\* supplied; with an anchor it returns a style for every position, an
\* unrecognised one included (then the rectangle's scrolled origin).
C11_NullIffNoAnchor ==
    lastEvent = "measure" =>
        /\ (gStyle = NULL) <=> (gNode = NULL)
        /\ (gNode # NULL /\ gPos \notin position) =>
              gStyle = [position |-> "absolute",
                        left |-> gNode.x + scrollX, top |-> gNode.y + scrollY]

\* the call without an anchor, for a position the switch would move
C11_Witness ==
    /\ lastEvent = "measure"
    /\ gNode = NULL
    /\ gPos = btmRight
    /\ gStyle = NULL

FitsCenteredOnly(f, side) ==
    /\ f.fromCenter.fitsCentered.fitsLeft = (side = "left")
    /\ f.fromCenter.fitsCentered.fitsRight = (side = "right")

\* C18 as stated: a working position ending in "center" whose centred fitment
\* holds on one side only gets the suffix of the side that fits (fitsLeft only
\* gives "-left", fitsRight only gives "-right"); on both sides or on neither
\* it keeps "center".
C18_BiasNamesFittingSide ==
    (rRuns = 1 /\ endsWith(beforeCenterBias(rPosition, rFits), center)) =>
        /\ FitsCenteredOnly(rFits, "left") => endsWith(rResult, dash \o left)
        /\ FitsCenteredOnly(rFits, "right") => endsWith(rResult, dash \o right)
        /\ ~FitsCenteredOneSide(rFits) => endsWith(rResult, center)

\* C18 as amended: the suffix names the side on which the centred overlay does
\* not fit: fitsLeft only gives "-right", fitsRight only gives "-left"; on
\* both sides or on neither the suffix stays "center".  Only the suffix changes.
C18_BiasNamesOverflowingSide ==
    (rRuns = 1 /\ endsWith(beforeCenterBias(rPosition, rFits), center)) =>
        LET working == beforeCenterBias(rPosition, rFits)
        IN  /\ FitsCenteredOnly(rFits, "left") =>
                  rResult = replace(working, center, right)
            /\ FitsCenteredOnly(rFits, "right") =>
                  rResult = replace(working, center, left)
            /\ ~FitsCenteredOneSide(rFits) => rResult = working
            /\ endsWith(rResult, dash \o right) \/ endsWith(rResult, dash \o left)
                  \/ endsWith(rResult, dash \o center)

\* a corner collapsed to "-center" and then biased: the centred overlay fits on
\* the left only and the result is "-right"
C18_Witness ==
    /\ rRuns = 1
    /\ rPosition = topLeft
    /\ FitsCenteredOnly(rFits, "left")
    /\ beforeCenterBias(rPosition, rFits) = btmCenter
    /\ rResult = btmRight

\* C19: when fromLeft.fitsLeft is false "left" resolves as "top-right" does,
\* and when fromRight.fitsRight is false "right" resolves as "top-left" does;
\* when the flag is true "left" / "right" is returned unchanged.
C19_SideResolvesAsCorner ==
    rRuns = 1 =>
        /\ rPosition = left =>
              rResult = IF rFits.fromLeft.fitsLeft THEN left
                        ELSE adjustForWindow(topRight, rFits)
        /\ rPosition = right =>
              rResult = IF rFits.fromRight.fitsRight THEN right
                        ELSE adjustForWindow(topLeft, rFits)

\* "left" that went through the corner rules: top-right, flipped to -left,
\* flipped to btm
C19_Witness ==
    /\ rRuns = 1
    /\ rPosition = left
    /\ ~rFits.fromLeft.fitsLeft
    /\ rResult = btmLeft

HasVerticalPrefix(p) == startsWith(p, top) \/ startsWith(p, btm)

\* C20: when the result has a vertical prefix and exactly one of
\* fromTop.fitsAbove, fromBottom.fitsBelow holds, the prefix is the direction
\* that fits, whatever the requested prefix; when both hold a requested prefix
\* is kept.
C20_VerticalFlip ==
    (rRuns = 1 /\ HasVerticalPrefix(rResult)) =>
        /\ (rFits.fromTop.fitsAbove /\ ~rFits.fromBottom.fitsBelow)
              => startsWith(rResult, top)
        /\ (~rFits.fromTop.fitsAbove /\ rFits.fromBottom.fitsBelow)
              => startsWith(rResult, btm)
        /\ (rFits.fromTop.fitsAbove /\ rFits.fromBottom.fitsBelow
             /\ HasVerticalPrefix(rPosition))
              => (startsWith(rResult, top) <=> startsWith(rPosition, top))

\* a "btm" request flipped to "top" because only above fits
C20_Witness ==
    /\ rRuns = 1
    /\ rPosition = btmLeft
    /\ rFits.fromTop.fitsAbove /\ ~rFits.fromBottom.fitsBelow
    /\ rResult = topLeft
-----------------------------------------------------------------------------
\* the style mouseHandler sets for a pointer at p = <<pageX, pageY>>
PointerStyle(p) ==
    [pointerEvents |-> "none", position |-> "absolute", left |-> p[1], top |-> p[2]]

\* C12: while followMouse is on and the tooltip is Open, after a pointer-move
\* the overlay style is {absolute, left = pageX, top = pageY, pointerEvents
\* none}; with followMouse on the style is never one computed from the anchor;
\* a pointer-move while Closed or with followMouse off leaves the style as it
\* was.
C12_FollowMouse ==
    /\ []((followMouse /\ tipIsOpen /\ lastEvent = "mousemove")
            => positionStyle = PointerStyle(pointer))
    /\ [](followMouse =>
            \/ positionStyle = initialPositionStyle
            \/ \E p \in PagePoints : positionStyle = PointerStyle(p))
    /\ [][(lastEvent' = "mousemove" /\ ~(followMouse /\ tipIsOpen))
            => positionStyle' = positionStyle]_vars

C12_Witness ==
    /\ followMouse
    /\ tipIsOpen
    /\ lastEvent = "mousemove"
    /\ pointer = <<1, 0>>
    /\ positionStyle = PointerStyle(<<1, 0>>)

\* C13: while followMouse is on, adjustForWindow is never invoked: the
\* adjusted position equals the requested position after any sequence of
\* open, resize and pointer-move events.
C13_FollowMouseSkipsResolver ==
    followMouse => adjustedPosition = tipPosition

\* C14: with autoAdjust on and followMouse off, the adjusted position of an
\* Open tooltip is adjustForWindow of the requested position and the fitment
\* measured last (on the open and on every resize since); with autoAdjust off
\* the adjusted position always equals the requested position.
C14_AutoAdjustSwitches ==
    /\ (mounted /\ tipIsOpen /\ autoAdjust /\ ~followMouse)
          => adjustedPosition = adjustForWindow(tipPosition, windowFits)
    /\ ~autoAdjust => adjustedPosition = tipPosition

\* the blur / mouse-out events that make handleBlur dismiss in state t
ClosingBlurs(t) ==
    {e \in [focusWithin : BOOLEAN,
            relatedTarget : {NoNode, "message", "elsewhere"},
            target : {"anchor", "message"}] :
        /\ (e.relatedTarget = "message" \/ e.target = "message") => t.isOpen
        /\ handleBlurCloses(t, e.focusWithin, e.relatedTarget, e.target)}

\* the states a dismiss trigger (Escape, blur, mouse-out) leaves from state t
Dismissals(t) ==
    {tipRender(t, handleKeyPress(t, "Escape"), FALSE, wrapperRect, windowFits)}
    \cup {tipRender(t, handleBlur(t, e.focusWithin, e.relatedTarget, e.target),
                    FALSE, wrapperRect, windowFits) : e \in ClosingBlurs(t)}

\* C15: in every state (no timer ever scheduled, the timer pending, fired or
\* cancelled, the tooltip Open or Closed) a dismiss trigger leaves the tooltip
\* Closed and changes the timers at most by cancelling the stored handle, and
\* a second dismiss trigger leaves the state the first one left.
C15_DismissIdempotent ==
    /\ mounted =>
          \A once \in Dismissals(tipState) :
              /\ ~once.isOpen
              /\ once.timers = clearTimeout(timers, timer)
              /\ once.timer = timer
              /\ \A twice \in Dismissals(once) : twice = once
    /\ lastEvent = "keypress:Escape" =>
          /\ ~tipIsOpen
          /\ timer \in TimerIds => timers[timer] # "pending"

\* Escape handled after the stored timer had fired
C15_Witness ==
    /\ lastEvent = "keypress:Escape"
    /\ ~tipIsOpen
    /\ timer = 1
    /\ timers[1] = "fired"

\* C16: while Open and not in follow-mouse mode, once a window resize has
\* been handled the rendered style is getPositionStyle of the adjusted
\* position and the anchor's current rectangle.
C16_StyleTracksAnchor ==
    (mounted /\ lastEvent = "resize" /\ tipIsOpen /\ ~followMouse)
        => positionStyle = getPositionStyle(adjustedPosition, wrapperRect)

\* C17: after the tooltip is unmounted no open-delay timer remains pending.
C17_NoTimerAfterUnmount ==
    ~mounted => NoTimerPending

Corners == {topLeft, topRight, btmLeft, btmRight}

\* C21: for a requested corner and a fitment in which neither
\* fromLeft.fitsRight nor fromRight.fitsLeft holds, the working position is
\* collapsed to the "-center" suffix, and the result ends in "center" when the
\* centred fitment holds on both sides or on neither.
C21_CornerCollapses ==
    (/\ rRuns = 1
     /\ rPosition \in Corners
     /\ ~rFits.fromLeft.fitsRight
     /\ ~rFits.fromRight.fitsLeft) =>
        /\ endsWith(beforeCenterBias(rPosition, rFits), dash \o center)
        /\ ~FitsCenteredOneSide(rFits) =>
              /\ rResult = beforeCenterBias(rPosition, rFits)
              /\ rResult \in {topCenter, btmCenter}

\* "top-right" with neither side fitting and the centred overlay fitting on
\* both sides
C21_Witness ==
    /\ rRuns = 1
    /\ rPosition = topRight
    /\ ~rFits.fromLeft.fitsRight
    /\ ~rFits.fromRight.fitsLeft
    /\ rFits.fromCenter.fitsCentered.fitsLeft
    /\ rFits.fromCenter.fitsCentered.fitsRight
    /\ rResult = topCenter

\* the step delivers a fitment measurement to onUpdateWindowFitment
FitmentUpdate ==
    /\ fitmentEnabled
    /\ mounted'
    /\ wrapperRect' # NULL
    /\ tipIsOpen'
    /\ lastEvent' = "resize" \/ ~tipIsOpen

\* C24: before the first fitment update the adjusted position is the requested
\* position; every fitment update sets it to adjustForWindow of the requested
\* position and the fitment of that update, whatever it was before; no other
\* step changes it.
C24_AdjustedMemoryless ==
    /\ [](lastEvent = "init" => adjustedPosition = tipPosition)
    /\ [][IF FitmentUpdate
          THEN adjustedPosition' = adjustForWindow(tipPosition, windowFits')
          ELSE adjustedPosition' = adjustedPosition]_vars

\* a resize while Open delivered a fitment in which above does not fit
C24_Witness ==
    /\ fitmentEnabled
    /\ tipIsOpen
    /\ lastEvent = "resize"
    /\ tipPosition = topLeft
    /\ ~windowFits.fromTop.fitsAbove
    /\ adjustedPosition = btmLeft

\* C22: a blur or mouse-out event changes the open state or the timers only
\* if focus is not within the anchor wrapper and the related target is not
\* inside the message, and then it closes the tooltip and cancels the stored
\* timer; with focus within the wrapper or the related target inside the
\* message it leaves the state as it was.
C22_BlurDismissal ==
    /\ [](mounted =>
            \A e \in BlurInputs :
                LET after == handleBlur(tipState, e.focusWithin, e.relatedTarget,
                                        e.target)
                IN  /\ after # tipState =>
                          /\ ~e.focusWithin
                          /\ e.relatedTarget # "message"
                          /\ ~after.isOpen
                          /\ after.timers = clearTimeout(timers, timer)
                    /\ (e.focusWithin \/ e.relatedTarget = "message") =>
                          after = tipState)
    /\ [][lastEvent' \in {"blur", "mouseout"} =>
            \/ tipIsOpen' = tipIsOpen /\ timers' = timers
            \/ ~tipIsOpen' /\ timers' = clearTimeout(timers, timer)]_vars

\* a mouse-out that was ignored: the timer of the hover is still pending
C22_Witness ==
    /\ lastEvent = "mouseout"
    /\ ~tipIsOpen
    /\ timer = 1
    /\ timers[1] = "pending"

\* C23: in every reachable state the overlay's position style is non-null and
\* declares position "absolute"; no step that ends with no anchor mounted
\* changes it.
C23_StyleAbsolute ==
    /\ [](positionStyle # NULL /\ positionStyle.position = "absolute")
    /\ [][~anchorMounted' => positionStyle' = positionStyle]_vars

\* a timer fired while no anchor was mounted: Open, the style still the one
\* computed from the anchor when it opened before
C23_Witness ==
    /\ lastEvent = "timer"
    /\ tipIsOpen
    /\ ~anchorMounted
    /\ ~followMouse
    /\ positionStyle = [position |-> "absolute", left |-> 10, top |-> 20]

====
